---- MODULE Spec2Model ----
(***************************************************************************)
(* A model of custom_orm: typed field descriptors (orm/fields.py), the     *)
(* record type with its persistence operations (orm/models.py), the        *)
(* Database unit of work over sqlite3 (orm/db.py) and the Query builder    *)
(* (orm/query.py).                                                         *)
(***************************************************************************)
EXTENDS Integers, Sequences, FiniteSets, TLC

\* ------------------------------------------------------------- bounds
\* record objects the caller keeps alive at once
MaxRecs == 2
\* Query objects the caller keeps alive at once
MaxQueries == 3
\* rows a table may hold (the rowid counter is capped in the insert guard)
MaxRowid == 2
\* rows of the tables that queries are run on
MaxRows == 3

\* ------------------------------------------------------------- values
\* A Python value is a tagged pair.  Strings are abstracted to 'a' * v, the
\* shape tests/test_orm.py uses ('a' * 101); "isostr" is the str that
\* sqlite3's default adapter makes of a datetime.
None == [t |-> "null", v |-> 0]
IntV(n) == [t |-> "int", v |-> n]
BoolV(n) == [t |-> "bool", v |-> n]
StrV(n) == [t |-> "str", v |-> n]
FloatV(n) == [t |-> "float", v |-> n]
DateV(n) == [t |-> "datetime", v |-> n]
IsoV(n) == [t |-> "isostr", v |-> n]
\* the keyword argument that was not passed
Omitted == [t |-> "omitted", v |-> 0]

\* isinstance(value, int): bool is a subclass of int in Python
isinstance_int(value) == value.t \in {"int", "bool"}
isinstance_str(value) == value.t \in {"str", "isostr"}
isinstance_number(value) == value.t \in {"int", "bool", "float"}
\* len(): 19 characters for 'YYYY-MM-DD HH:MM:SS'
len(value) == IF value.t = "isostr" THEN 19 ELSE value.v

\* Python's ==: numbers compare by value across int, bool and float
PyEq(a, b) ==
    IF isinstance_number(a) /\ isinstance_number(b) THEN a.v = b.v
    ELSE a.t = b.t /\ a.v = b.v

\* ------------------------------------------------------------- fields
\* Field.__init__ and the subclasses' __init__: one descriptor
\* (name is what __set_name__ records as _attr_name and column name)
Field(name, kind, primary_key, nullable, default, max_length) ==
    [name |-> name, kind |-> kind, primary_key |-> primary_key,
     nullable |-> nullable, default |-> default, max_length |-> max_length,
     auto_now_add |-> FALSE]

IntegerField(name, primary_key, nullable, default) ==
    Field(name, "IntegerField", primary_key, nullable, default, 0)
StringField(name, primary_key, nullable, default, max_length) ==
    Field(name, "StringField", primary_key, nullable, default, max_length)
BooleanField(name, primary_key, nullable, default) ==
    Field(name, "BooleanField", primary_key, nullable, default, 0)
DateTimeField(name, primary_key, nullable, default) ==
    Field(name, "DateTimeField", primary_key, nullable, default, 0)
\* DateTimeField(..., auto_now_add=True): __init__ stores the flag
auto_now_add(field) == [field EXCEPT !.auto_now_add = TRUE]
FloatField(name, primary_key, nullable, default) ==
    Field(name, "FloatField", primary_key, nullable, default, 0)

\* a validate that accepts everything
validate_mutant(field, value) == TRUE
\* <Kind>Field.validate: TRUE when no ValueError is raised
validate(field, value) ==
    CASE field.kind = "IntegerField" ->
            value = None \/ isinstance_int(value)
      [] field.kind = "StringField" ->
            value = None \/ (isinstance_str(value) /\ len(value) <= field.max_length)
      [] field.kind = "BooleanField" ->
            value = None \/ (isinstance_int(value) /\ value.v \in {0, 1})
      [] field.kind = "DateTimeField" ->
            value = None \/ value.t = "datetime"
      [] field.kind = "FloatField" ->
            value = None \/ isinstance_number(value)

\* a __set__ that stores the value as it was passed
coerce_mutant(field, value) == value
\* BooleanField.__set__'s conversion: bool(value) for an int
coerce(field, value) ==
    IF field.kind = "BooleanField" /\ isinstance_int(value)
    THEN BoolV(IF value.v = 0 THEN 0 ELSE 1)
    ELSE value

\* a __set__ without the not-nullable test
nullable_ok_mutant(field, value) == TRUE
\* the not-nullable test that opens Field.__set__ and BooleanField.__set__
nullable_ok(field, value) == field.nullable \/ value # None

\* Field.__set__ / BooleanField.__set__: ok = FALSE is the ValueError,
\* otherwise val is what instance.__dict__ receives
__set__(field, value) ==
    IF ~nullable_ok(field, value) THEN [ok |-> FALSE, val |-> None]
    ELSE IF ~validate(field, value) THEN [ok |-> FALSE, val |-> None]
    ELSE [ok |-> TRUE, val |-> coerce(field, value)]

\* db_type(): the column's declared type
db_type(field) ==
    CASE field.kind = "IntegerField" -> "INTEGER"
      [] field.kind = "StringField" -> "VARCHAR"
      [] field.kind = "BooleanField" -> "BOOLEAN"
      [] field.kind = "DateTimeField" -> "DATETIME"
      [] field.kind = "FloatField" -> "FLOAT"

\* ------------------------------------------------------ declarations
\* The record types the model declares.  Each keeps two columns, so that
\* every kind of field, and every shape a declaration can take, is covered
\* without multiplying the instances' values: TestModel's id and name
\* (tests/test_orm.py), its active column and a price column (without the
\* default) in types of their own, a DateTime column as created_at of
\* main.py's User and Post (declared with auto_now_add=True).
TestModel ==
    << IntegerField("id", TRUE, TRUE, None),
       StringField("name", FALSE, FALSE, None, 100) >>
Flagged ==
    << IntegerField("id", TRUE, TRUE, None),
       BooleanField("active", FALSE, TRUE, BoolV(1)) >>
Priced ==
    << IntegerField("id", TRUE, TRUE, None),
       FloatField("price", FALSE, TRUE, None) >>
Stamped ==
    << IntegerField("id", TRUE, TRUE, None),
       auto_now_add(DateTimeField("created_at", FALSE, TRUE, None)) >>
\* a primary key that is not an INTEGER column
TextKey ==
    << StringField("code", TRUE, TRUE, None, 100),
       IntegerField("n", FALSE, TRUE, None) >>
\* a primary key declared nullable=False
StrictKey ==
    << IntegerField("id", TRUE, FALSE, None),
       IntegerField("n", FALSE, TRUE, None) >>
\* no primary key
NoKey ==
    << StringField("name", FALSE, FALSE, None, 100) >>
\* two fields marked primary_key
TwoKeys ==
    << IntegerField("id", TRUE, TRUE, None),
       IntegerField("code", TRUE, TRUE, None) >>

Decls == {"TestModel", "Flagged", "Priced", "Stamped", "TextKey", "StrictKey",
          "NoKey", "TwoKeys"}
class_body(d) ==
    CASE d = "TestModel" -> TestModel
      [] d = "Flagged" -> Flagged
      [] d = "Priced" -> Priced
      [] d = "Stamped" -> Stamped
      [] d = "TextKey" -> TextKey
      [] d = "StrictKey" -> StrictKey
      [] d = "NoKey" -> NoKey
      [] d = "TwoKeys" -> TwoKeys

\* -------------------------------------------------------------- schema
Max(S) == CHOOSE m \in S : \A n \in S : n <= m
Min(S) == CHOOSE m \in S : \A n \in S : m <= n

\* indexes of the fields marked primary_key
pk_fields(fields) == {i \in 1..Len(fields) : fields[i].primary_key}

\* the loop of model_fields: every pk field overwrites primary_key, so the
\* last one in declaration order stays (0 stands for None)
last_primary_key(fields) ==
    IF pk_fields(fields) = {} THEN 0 ELSE Max(pk_fields(fields))

\* @model_fields: __fields__ and __primary_key__ of the class
model_fields(d) ==
    [name |-> d, fields |-> class_body(d),
     primary_key |-> last_primary_key(class_body(d))]

\* before the class statement has run
NoClass == [name |-> "", fields |-> <<>>, primary_key |-> 0]

\* ------------------------------------------------------------ storage
\* What sqlite3 does with the statements the program sends.  A table is
\* [exists, rows]; a row is [rowid, cols], cols in field order.
NoTable == [exists |-> FALSE, rows |-> {}]

\* sqlite3's parameter adapters: bool binds as int, datetime as ISO text
adapt(value) ==
    CASE value.t = "bool" -> IntV(value.v)
      [] value.t = "datetime" -> IsoV(value.v)
      [] OTHER -> value

\* column affinity of the declared type: FLOAT is REAL (an int is stored as
\* a float); INTEGER, BOOLEAN and DATETIME are INTEGER/NUMERIC (a float with
\* no fraction is stored as an int); VARCHAR is TEXT
affinity(field, dbv) ==
    CASE db_type(field) = "FLOAT" /\ dbv.t = "int" -> FloatV(dbv.v)
      [] db_type(field) \in {"INTEGER", "BOOLEAN", "DATETIME"} /\ dbv.t = "float" -> IntV(dbv.v)
      [] OTHER -> dbv

\* the value a column receives from the bound Python value
to_column(field, value) == affinity(field, adapt(value))

\* SQL's = : never true of NULL
SqlEq(a, b) == a # None /\ b # None /\ PyEq(a, b)

\* INTEGER PRIMARY KEY: the column is the rowid
is_rowid_alias(field) == field.primary_key /\ db_type(field) = "INTEGER"

next_rowid(rows) ==
    IF rows = {} THEN 1 ELSE Max({row.rowid : row \in rows}) + 1

\* CREATE TABLE IF NOT EXISTS: sqlite3 refuses two PRIMARY KEY columns
create_sql_ok(fields) == Cardinality(pk_fields(fields)) <= 1

\* INSERT INTO t (<included columns>) VALUES (...): [ok, rowid, rows].
\* A column left out takes the DEFAULT that create_table declared.
sql_insert(rows, fields, included, values) ==
    LET given == {i \in included : is_rowid_alias(fields[i]) /\ values[i] # None}
        rid == IF given = {} THEN next_rowid(rows) ELSE values[Min(given)].v
        cols == [i \in 1..Len(fields) |->
                    IF is_rowid_alias(fields[i]) THEN IntV(rid)
                    ELSE IF i \in included THEN to_column(fields[i], values[i])
                    ELSE to_column(fields[i], fields[i].default)]
        unique == \A row \in rows : row.rowid # rid
        notnull == \A i \in 1..Len(fields) : fields[i].nullable \/ cols[i] # None
    IN  IF unique /\ notnull
        THEN [ok |-> TRUE, rowid |-> rid,
              rows |-> rows \cup {[rowid |-> rid, cols |-> cols]}]
        ELSE [ok |-> FALSE, rowid |-> 0, rows |-> rows]

\* an UPDATE that writes the values as one more row
sql_update_mutant(rows, fields, pk, values) ==
    rows \cup {[rowid |-> next_rowid(rows),
                cols |-> [i \in 1..Len(fields) |-> to_column(fields[i], values[i])]]}
\* UPDATE t SET <non-key columns> = ? WHERE <pk column> = ?
sql_update(rows, fields, pk, values) ==
    {IF SqlEq(row.cols[pk], adapt(values[pk]))
     THEN [row EXCEPT !.cols = [i \in 1..Len(fields) |->
                IF fields[i].primary_key THEN row.cols[i]
                ELSE to_column(fields[i], values[i])]]
     ELSE row : row \in rows}

\* a DELETE whose WHERE clause matches no row
sql_delete_mutant(rows, pk, value) == rows
\* DELETE FROM t WHERE <pk column> = ?
sql_delete(rows, pk, value) ==
    {row \in rows : ~SqlEq(row.cols[pk], adapt(value))}

\* ------------------------------------------------------------- records
\* Model.__init__: setattr of every field, in order, with the keyword value
\* or the field's default; ok = FALSE when a __set__ raises
Model__init__(fields, kwargs) ==
    LET set == [i \in 1..Len(fields) |->
                  __set__(fields[i],
                          IF kwargs[i] = Omitted THEN fields[i].default ELSE kwargs[i])]
    IN  [ok |-> \A i \in 1..Len(fields) : set[i].ok,
         d |-> [i \in 1..Len(fields) |-> set[i].val]]

\* an execute without the test for a connection
execute_error_mutant(database, table) ==
    IF ~table.exists THEN "StorageError" ELSE "none"
\* Database.execute's own test and sqlite3's "no such table"
execute_error(database, table) ==
    IF ~database._cursor THEN "RuntimeError"
    ELSE IF ~table.exists THEN "StorageError"
    ELSE "none"

\* what a persistence call leaves: the exception ("none" when it returns),
\* the table as the connection sees it, the instance's __dict__, whether a
\* data-changing statement ran (sqlite3 opens a transaction for it), and
\* the rowid the cursor reports
Effect(exc, table, d, began, rowid) ==
    [exc |-> exc, table |-> table, d |-> d, began |-> began, rowid |-> rowid]

\* a write-back that reads no rowid
lastrowid_mutant(res) == IntV(0)
\* db._cursor.lastrowid after the INSERT
lastrowid(res) == IntV(res.rowid)

\* Model._insert
_insert(c, self, database, table) ==
    LET fields == c.fields
        included == {i \in 1..Len(fields) :
                        ~(fields[i].primary_key /\ self[i] = None)}
        res == sql_insert(table.rows, fields, included, self)
        back == __set__(fields[c.primary_key], lastrowid(res))
    IN  IF execute_error(database, table) # "none"
        THEN Effect(execute_error(database, table), table, self, FALSE, 0)
        ELSE IF ~res.ok
        THEN Effect("StorageError", table, self, TRUE, 0)
        ELSE IF c.primary_key # 0 /\ self[c.primary_key] = None
        THEN IF back.ok
             THEN Effect("none", [table EXCEPT !.rows = res.rows],
                         [self EXCEPT ![c.primary_key] = back.val], TRUE, res.rowid)
             ELSE Effect("ValidationError", [table EXCEPT !.rows = res.rows],
                         self, TRUE, res.rowid)
        ELSE Effect("none", [table EXCEPT !.rows = res.rows], self, TRUE, res.rowid)

\* an _update whose UPDATE has no WHERE clause
_update_mutant(c, self, database, table) ==
    IF c.primary_key = 0
    THEN Effect("SchemaUsageError", table, self, FALSE, 0)
    ELSE IF execute_error(database, table) # "none"
    THEN Effect(execute_error(database, table), table, self, FALSE, 0)
    ELSE Effect("none",
                [table EXCEPT !.rows =
                    {[row EXCEPT !.cols = [i \in 1..Len(c.fields) |->
                          IF c.fields[i].primary_key THEN row.cols[i]
                          ELSE to_column(c.fields[i], self[i])]] : row \in table.rows}],
                self, TRUE, 0)
\* Model._update
_update(c, self, database, table) ==
    IF c.primary_key = 0
    THEN Effect("SchemaUsageError", table, self, FALSE, 0)
    ELSE IF execute_error(database, table) # "none"
    THEN Effect(execute_error(database, table), table, self, FALSE, 0)
    ELSE Effect("none",
                [table EXCEPT !.rows = sql_update(table.rows, c.fields, c.primary_key, self)],
                self, TRUE, 0)

\* a save that always inserts
save_inserts_mutant(c, self) == TRUE
\* the test of Model.save: TRUE when it takes the _insert branch
save_inserts(c, self) ==
    IF c.primary_key # 0 THEN self[c.primary_key] = None ELSE TRUE

\* Model.save
save(c, self, database, table) ==
    IF save_inserts(c, self)
    THEN _insert(c, self, database, table)
    ELSE _update(c, self, database, table)

\* a delete that leaves the primary key in the instance
delete_keeps_key_mutant(c, self, database, table) ==
    IF c.primary_key = 0
    THEN Effect("SchemaUsageError", table, self, FALSE, 0)
    ELSE IF execute_error(database, table) # "none"
    THEN Effect(execute_error(database, table), table, self, FALSE, 0)
    ELSE Effect("none",
                [table EXCEPT !.rows =
                    sql_delete(table.rows, c.primary_key, self[c.primary_key])],
                self, TRUE, 0)
\* a delete that sends its statement before it looks for the primary key
delete_mutant(c, self, database, table) ==
    IF execute_error(database, table) # "none"
    THEN Effect(execute_error(database, table), table, self, FALSE, 0)
    ELSE IF c.primary_key = 0
    THEN Effect("SchemaUsageError", table, self, TRUE, 0)
    ELSE LET reset == __set__(c.fields[c.primary_key], None)
             rows == sql_delete(table.rows, c.primary_key, self[c.primary_key])
         IN  IF reset.ok
             THEN Effect("none", [table EXCEPT !.rows = rows],
                         [self EXCEPT ![c.primary_key] = reset.val], TRUE, 0)
             ELSE Effect("ValidationError", [table EXCEPT !.rows = rows], self, TRUE, 0)
\* Model.delete: the DELETE runs before the primary key is set to None
delete(c, self, database, table) ==
    LET reset == __set__(c.fields[c.primary_key], None)
        rows == sql_delete(table.rows, c.primary_key, self[c.primary_key])
    IN  IF c.primary_key = 0
        THEN Effect("SchemaUsageError", table, self, FALSE, 0)
        ELSE IF execute_error(database, table) # "none"
        THEN Effect(execute_error(database, table), table, self, FALSE, 0)
        ELSE IF reset.ok
        THEN Effect("none", [table EXCEPT !.rows = rows],
                    [self EXCEPT ![c.primary_key] = reset.val], TRUE, 0)
        ELSE Effect("ValidationError", [table EXCEPT !.rows = rows], self, TRUE, 0)

\* Query.first of select().filter_by(<pk> = id): the row of least rowid
\* among those that match, as SELECT ... WHERE <pk column> = ? LIMIT 1
first_by_key(rows, pk, id) ==
    LET hit == {row \in rows : SqlEq(row.cols[pk], adapt(id))}
    IN  IF hit = {} THEN {}
        ELSE {CHOOSE row \in hit : \A other \in hit : row.rowid <= other.rowid}

\* Query._row_to_model: every column of the row becomes a keyword argument
_row_to_model(fields, row) == Model__init__(fields, row.cols)

\* Model.get: [exc, found, d]
get(c, database, table, id) ==
    LET hit == first_by_key(table.rows, c.primary_key, id)
        made == _row_to_model(c.fields, CHOOSE row \in hit : TRUE)
    IN  IF c.primary_key = 0
        THEN [exc |-> "SchemaUsageError", found |-> FALSE, d |-> <<>>]
        ELSE IF execute_error(database, table) # "none"
        THEN [exc |-> execute_error(database, table), found |-> FALSE, d |-> <<>>]
        ELSE IF hit = {}
        THEN [exc |-> "none", found |-> FALSE, d |-> <<>>]
        ELSE IF made.ok
        THEN [exc |-> "none", found |-> TRUE, d |-> made.d]
        ELSE [exc |-> "ValidationError", found |-> FALSE, d |-> <<>>]

\* -------------------------------------------------------------- state
VARIABLES
    cls,        \* the declared record type: __fields__ and __primary_key__
    recs,       \* the Model instances the caller holds, by object identity
    database,   \* the Database object: _connection and _cursor (TRUE = set)
    scope,      \* TRUE inside the body of `with Database(...) as db`
    in_tx,      \* the connection has an open transaction
    table,      \* the table as the open connection sees it
    disk,       \* the table as committed to the database file
    hist,       \* observer: what became of each key a delete removed
    last,       \* the outcome of the latest call
    queries,    \* the Query objects the caller holds
    heap,       \* the list objects Query._filters and _filter_params refer to
    snap        \* each Query's clauses as they were when it was returned

vars == <<cls, recs, database, scope, in_tx, table, disk, hist, last,
          queries, heap, snap>>
query_vars == <<queries, heap, snap>>
record_vars == <<cls, recs, database, scope, in_tx, table, disk>>

NoRec == [live |-> FALSE, d |-> <<>>]
Live == {r \in 1..MaxRecs : recs[r].live}
Free == (1..MaxRecs) \ Live

\* the observer of deleted keys: of every key k, what became of the last
\* delete() that returned on an instance whose primary key was k while a row
\* with key k was stored ("none": no such delete, or a later insert added the
\* key again; "pending": the delete is uncommitted; "committed"; "undone":
\* its transaction was rolled back).  Unobserved switches the observer off.
NoHist == [k \in 1..MaxRowid |-> "none"]
Unobserved == [k \in 1..MaxRowid |-> "off"]

\* the integer keys of the rows of a table
keys_of(t) ==
    {row.cols[cls.primary_key].v : row \in {x \in t.rows : x.cols[cls.primary_key] # None}}

\* the observer's step, taken with every call
Observe ==
    hist' = IF hist = Unobserved THEN hist
            ELSE [k \in 1..MaxRowid |->
                IF last'.op = "delete" /\ last'.exc = "none"
                   /\ last'.key = IntV(k) /\ k \in keys_of(table)
                THEN "pending"
                ELSE IF last'.op = "save" /\ k \in keys_of(table') \ keys_of(table)
                THEN "none"
                ELSE IF "commit" \in last'.calls /\ hist[k] = "pending"
                THEN "committed"
                ELSE IF "rollback" \in last'.calls /\ hist[k] = "pending"
                THEN "undone"
                ELSE hist[k]]

Closed == [_connection |-> FALSE, _cursor |-> FALSE]
Open == [_connection |-> TRUE, _cursor |-> TRUE]

\* the values the caller passes: valid and invalid ones for every kind
ArgVals == {None, IntV(1), StrV(1), StrV(101), DateV(1)}
KeyVals == {IntV(1), IntV(2), StrV(1)}
\* positions of keyword arguments: the declarations have at most two fields
Columns == 1..2

\* the outcome of a call: its name, the exception that left it ("none" when
\* it returned), the instance it acted on or returned (0: none), the key or
\* rowid involved, the connection methods it called, whether it changed the
\* table, the fields a constructor call passed no keyword for, and the list
\* of instances (their field values) a query returned
Outcome(op, exc, rec, key, calls, wrote) ==
    [op |-> op, exc |-> exc, rec |-> rec, key |-> key, calls |-> calls,
     wrote |-> wrote, omitted |-> {}, rows |-> <<>>]

\* ------------------------------------------------------------ Database
\* Database.connect: a new connection sees the committed file; what an
\* earlier connection of this object had not committed is dropped with it
Connect ==
    /\ database' = Open
    /\ table' = disk
    /\ in_tx' = FALSE
    /\ last' = Outcome("connect", "none", 0, None, {}, FALSE)
    /\ UNCHANGED <<cls, recs, scope, disk, query_vars>>
    /\ Observe

\* Database.close: closing drops the uncommitted changes
Close ==
    /\ database' = Closed
    /\ table' = disk
    /\ in_tx' = FALSE
    /\ last' = Outcome("close", "none", 0, None,
                       IF database._connection THEN {"close"} ELSE {}, FALSE)
    /\ UNCHANGED <<cls, recs, scope, disk, query_vars>>
    /\ Observe

\* Database.__enter__
Enter ==
    /\ ~scope
    /\ scope' = TRUE
    /\ database' = Open
    /\ table' = disk
    /\ in_tx' = FALSE
    /\ last' = Outcome("enter", "none", 0, None, {}, FALSE)
    /\ UNCHANGED <<cls, recs, disk, query_vars>>
    /\ Observe

\* Database.__exit__ with exc_type None (failed = FALSE) or set: commit or
\* rollback on self._connection, then close(); on a connection that is
\* already None the attribute access raises and close() is not reached
Exit(failed) ==
    /\ scope
    /\ scope' = FALSE
    /\ IF ~database._connection
       THEN /\ last' = Outcome(IF failed THEN "exit_error" ELSE "exit", "AttributeError",
                               0, None, {}, FALSE)
            /\ UNCHANGED <<database, table, disk, in_tx>>
       ELSE /\ database' = Closed
            /\ in_tx' = FALSE
            /\ disk' = IF failed THEN disk ELSE table
            /\ table' = IF failed THEN disk ELSE table
            /\ last' = Outcome(IF failed THEN "exit_error" ELSE "exit", "none", 0, None,
                               {IF failed THEN "rollback" ELSE "commit", "close"}, FALSE)
    /\ UNCHANGED <<cls, recs, query_vars>>
    /\ Observe

\* Database.commit
Commit ==
    /\ IF ~database._connection
       THEN /\ last' = Outcome("commit", "RuntimeError", 0, None, {}, FALSE)
            /\ UNCHANGED <<disk, in_tx>>
       ELSE /\ disk' = table
            /\ in_tx' = FALSE
            /\ last' = Outcome("commit", "none", 0, None, {"commit"}, FALSE)
    /\ UNCHANGED <<cls, recs, database, scope, table, query_vars>>
    /\ Observe

\* Database.rollback
Rollback ==
    /\ IF ~database._connection
       THEN /\ last' = Outcome("rollback", "RuntimeError", 0, None, {}, FALSE)
            /\ UNCHANGED <<table, in_tx>>
       ELSE /\ table' = disk
            /\ in_tx' = FALSE
            /\ last' = Outcome("rollback", "none", 0, None, {"rollback"}, FALSE)
    /\ UNCHANGED <<cls, recs, database, scope, disk, query_vars>>
    /\ Observe

\* ------------------------------------------------------ record type
\* the class statement under @model_fields: it never raises
Declare(d) ==
    /\ cls = NoClass
    /\ cls' = model_fields(d)
    /\ last' = Outcome("declare", "none", 0, None, {}, FALSE)
    /\ UNCHANGED <<recs, database, scope, in_tx, table, disk, query_vars>>
    /\ Observe

\* Model.create_table: CREATE TABLE IF NOT EXISTS, then db.commit()
CreateTable ==
    /\ cls # NoClass
    /\ IF ~database._cursor
       THEN /\ last' = Outcome("create_table", "RuntimeError", 0, None, {}, FALSE)
            /\ UNCHANGED <<table, disk, in_tx>>
       ELSE IF ~create_sql_ok(cls.fields)
       THEN /\ last' = Outcome("create_table", "StorageError", 0, None, {}, FALSE)
            /\ UNCHANGED <<table, disk, in_tx>>
       ELSE /\ table' = [exists |-> TRUE, rows |-> table.rows]
            /\ disk' = table'
            /\ in_tx' = FALSE
            /\ last' = Outcome("create_table", "none", 0, None, {"commit"}, ~table.exists)
    /\ UNCHANGED <<cls, recs, database, scope, query_vars>>
    /\ Observe

\* Model.drop_table: DROP TABLE IF EXISTS, with no commit of its own; outside
\* a transaction sqlite3 runs the statement in autocommit mode
DropTable ==
    /\ cls # NoClass
    /\ IF ~database._cursor
       THEN /\ last' = Outcome("drop_table", "RuntimeError", 0, None, {}, FALSE)
            /\ UNCHANGED <<table, disk>>
       ELSE /\ table' = NoTable
            /\ disk' = IF in_tx THEN disk ELSE NoTable
            /\ last' = Outcome("drop_table", "none", 0, None, {}, table.exists)
    /\ UNCHANGED <<cls, recs, database, scope, in_tx, query_vars>>
    /\ Observe

\* ------------------------------------------------------------- records
\* cls(**kwargs): the new instance, or the ValueError of a field
New(kwargs) ==
    /\ cls # NoClass
    /\ Free # {}
    /\ \A i \in Columns : i > Len(cls.fields) => kwargs[i] = Omitted
    /\ LET made == Model__init__(cls.fields, kwargs)
           r == Min(Free)
           out == Outcome("new", IF made.ok THEN "none" ELSE "ValidationError",
                          IF made.ok THEN r ELSE 0, None, {}, FALSE)
       IN  /\ recs' = IF made.ok
                      THEN [recs EXCEPT ![r] = [live |-> TRUE, d |-> made.d]]
                      ELSE recs
           /\ last' = [out EXCEPT !.omitted =
                         {i \in 1..Len(cls.fields) : kwargs[i] = Omitted}]
    /\ UNCHANGED <<cls, database, scope, in_tx, table, disk, query_vars>>
    /\ Observe

\* instance.<field> = value
SetField(r, i, value) ==
    /\ r \in Live
    /\ i \in 1..Len(cls.fields)
    /\ LET set == __set__(cls.fields[i], value)
       IN  /\ recs' = IF set.ok THEN [recs EXCEPT ![r].d[i] = set.val] ELSE recs
           /\ last' = Outcome("set", IF set.ok THEN "none" ELSE "ValidationError",
                              r, None, {}, FALSE)
    /\ UNCHANGED <<cls, database, scope, in_tx, table, disk, query_vars>>
    /\ Observe

\* instance.save(db)
Save(r) ==
    /\ r \in Live
    /\ LET eff == save(cls, recs[r].d, database, table)
       IN  /\ eff.rowid <= MaxRowid
           /\ table' = eff.table
           /\ in_tx' = (in_tx \/ eff.began)
           /\ recs' = [recs EXCEPT ![r].d = eff.d]
           /\ last' = Outcome("save", eff.exc, r, IntV(eff.rowid), {},
                              eff.table # table)
    /\ UNCHANGED <<cls, database, scope, disk, query_vars>>
    /\ Observe

\* instance._update(db), called directly
Update(r) ==
    /\ r \in Live
    /\ LET eff == _update(cls, recs[r].d, database, table)
       IN  /\ table' = eff.table
           /\ in_tx' = (in_tx \/ eff.began)
           /\ recs' = [recs EXCEPT ![r].d = eff.d]
           /\ last' = Outcome("_update", eff.exc, r,
                              IF cls.primary_key = 0 THEN None
                              ELSE recs[r].d[cls.primary_key], {},
                              eff.table # table)
    /\ UNCHANGED <<cls, database, scope, disk, query_vars>>
    /\ Observe

\* instance.delete(db)
Delete(r) ==
    /\ r \in Live
    /\ LET eff == delete(cls, recs[r].d, database, table)
       IN  /\ table' = eff.table
           /\ in_tx' = (in_tx \/ eff.began)
           /\ recs' = [recs EXCEPT ![r].d = eff.d]
           /\ last' = Outcome("delete", eff.exc, r,
                              IF cls.primary_key = 0 THEN None
                              ELSE recs[r].d[cls.primary_key], {},
                              eff.table # table)
    /\ UNCHANGED <<cls, database, scope, disk, query_vars>>
    /\ Observe

\* cls.get(db, id): the hydrated instance is a new object
Get(id) ==
    /\ cls # NoClass
    /\ LET res == get(cls, database, table, id)
           r == Min(Free)
       IN  /\ res.found => Free # {}
           /\ recs' = IF res.found
                      THEN [recs EXCEPT ![r] = [live |-> TRUE, d |-> res.d]]
                      ELSE recs
           /\ last' = Outcome("get", res.exc, IF res.found THEN r ELSE 0, id, {}, FALSE)
    /\ UNCHANGED <<cls, database, scope, in_tx, table, disk, query_vars>>
    /\ Observe

\* --------------------------------------------------------------- Query
\* A Query object holds references to two Python lists (_filters and
\* _filter_params, indexes into heap) and three plain attributes.  A
\* filter_by fragment "<column> = ?" is [text |-> column, param |-> TRUE];
\* a raw fragment of filter() is [text |-> fragment, param |-> FALSE].
NoQuery == [live |-> FALSE, _filters |-> 0, _filter_params |-> 0,
            _order_by |-> None, _limit |-> None, _offset |-> None]
LiveQ == {q \in 1..MaxQueries : queries[q].live}
FreeQ == (1..MaxQueries) \ LiveQ

\* the index of the field named attr_name in __fields__ (0: .get gives None)
field_index(fields, attr_name) ==
    IF \E i \in 1..Len(fields) : fields[i].name = attr_name
    THEN CHOOSE i \in 1..Len(fields) : fields[i].name = attr_name
    ELSE 0

\* Query.__init__: two new empty lists
Query__init__(h) ==
    [heap |-> h \o << <<>>, <<>> >>,
     query |-> [live |-> TRUE, _filters |-> Len(h) + 1, _filter_params |-> Len(h) + 2,
                _order_by |-> None, _limit |-> None, _offset |-> None]]

\* a _clone that passes self's lists on without .copy()
_clone_mutant(h, self) == [heap |-> h, query |-> self]
\* Query._clone: a new Query whose lists are copies of self's
_clone(h, self) ==
    [heap |-> h \o << h[self._filters], h[self._filter_params] >>,
     query |-> [self EXCEPT !._filters = Len(h) + 1, !._filter_params = Len(h) + 2]]

\* what a builder call leaves: ok = FALSE is the ValueError, after which the
\* clone is unreachable and only changes to lists that existed before stay
Built(ok, h, query) == [ok |-> ok, heap |-> h, query |-> query]

\* a filter that binds a parameter, None, for every raw fragment
filter_mutant(h, self, conditions) ==
    LET c == _clone(h, self)
    IN  Built(TRUE, [c.heap EXCEPT ![c.query._filters] = @ \o conditions,
                                   ![c.query._filter_params] =
                                        @ \o [j \in 1..Len(conditions) |-> None]],
              c.query)
\* Query.filter
filter(h, self, conditions) ==
    LET c == _clone(h, self)
    IN  Built(TRUE, [c.heap EXCEPT ![c.query._filters] = @ \o conditions], c.query)

\* the loop of Query.filter_by over kwargs.items(), from the k-th item on
RECURSIVE filter_by_loop(_, _, _, _, _)
filter_by_loop(fields, h, query, kwargs, k) ==
    IF k > Len(kwargs) THEN Built(TRUE, h, query)
    ELSE LET i == field_index(fields, kwargs[k].attr)
         IN  IF i = 0 THEN Built(FALSE, h, query)
             ELSE filter_by_loop(fields,
                    [h EXCEPT ![query._filters] =
                                 Append(@, [text |-> fields[i].name, param |-> TRUE]),
                              ![query._filter_params] = Append(@, kwargs[k].value)],
                    query, kwargs, k + 1)

\* Query.filter_by
filter_by(fields, h, self, kwargs) ==
    LET c == _clone(h, self)
    IN  filter_by_loop(fields, c.heap, c.query, kwargs, 1)

\* an order_by that keeps the ordering the query already has
order_by_mutant(fields, h, self, field_name, ascending) ==
    LET c == _clone(h, self)
        i == field_index(fields, field_name)
    IN  IF i = 0 THEN Built(FALSE, c.heap, c.query)
        ELSE IF self._order_by # None THEN Built(TRUE, c.heap, c.query)
        ELSE Built(TRUE, c.heap,
                   [c.query EXCEPT !._order_by =
                       [text |-> fields[i].name,
                        direction |-> IF ascending THEN "ASC" ELSE "DESC"]])
\* Query.order_by
order_by(fields, h, self, field_name, ascending) ==
    LET c == _clone(h, self)
        i == field_index(fields, field_name)
    IN  IF i = 0 THEN Built(FALSE, c.heap, c.query)
        ELSE Built(TRUE, c.heap,
                   [c.query EXCEPT !._order_by =
                       [text |-> fields[i].name,
                        direction |-> IF ascending THEN "ASC" ELSE "DESC"]])

\* a limit that starts the paging over: it drops the offset
limit_mutant(h, self, n) ==
    LET c == _clone(h, self)
    IN  Built(TRUE, c.heap, [c.query EXCEPT !._limit = IntV(n), !._offset = None])
\* Query.limit
limit(h, self, n) ==
    LET c == _clone(h, self)
    IN  Built(TRUE, c.heap, [c.query EXCEPT !._limit = IntV(n)])

\* Query.offset
offset(h, self, n) ==
    LET c == _clone(h, self)
    IN  Built(TRUE, c.heap, [c.query EXCEPT !._offset = IntV(n)])

\* the clauses a Query holds, its lists read through the heap
View(h, query) ==
    [_filters |-> h[query._filters], _filter_params |-> h[query._filter_params],
     _order_by |-> query._order_by, _limit |-> query._limit, _offset |-> query._offset]

\* the caller keeps the returned Query; after a ValueError nothing is
\* returned and the lists made for the clone are garbage
Keep(op, src, built) ==
    /\ built.ok => FreeQ # {}
    /\ IF built.ok
       THEN /\ heap' = built.heap
            /\ queries' = [queries EXCEPT ![Min(FreeQ)] = built.query]
            /\ snap' = [snap EXCEPT ![Min(FreeQ)] = View(built.heap, built.query)]
            /\ last' = Outcome(op, "none", Min(FreeQ), IntV(src), {}, FALSE)
       ELSE /\ heap' = SubSeq(built.heap, 1, Len(heap))
            /\ UNCHANGED <<queries, snap>>
            /\ last' = Outcome(op, "SchemaUsageError", 0, IntV(src), {}, FALSE)
    /\ UNCHANGED record_vars
    /\ Observe

\* Model.select(db)
Select ==
    FreeQ # {} /\ Keep("select", 0, Built(TRUE, Query__init__(heap).heap, Query__init__(heap).query))
Filter(q, conditions) ==
    q \in LiveQ /\ Keep("filter", q, filter(heap, queries[q], conditions))
FilterBy(q, kwargs) ==
    q \in LiveQ /\ Keep("filter_by", q, filter_by(cls.fields, heap, queries[q], kwargs))
OrderBy(q, field_name, ascending) ==
    q \in LiveQ /\ Keep("order_by", q, order_by(cls.fields, heap, queries[q], field_name, ascending))
Limit(q, n) ==
    q \in LiveQ /\ Keep("limit", q, limit(heap, queries[q], n))
Offset(q, n) ==
    q \in LiveQ /\ Keep("offset", q, offset(heap, queries[q], n))

\* ----------------------------------------------------- query execution
\* a statement that emits OFFSET only next to a LIMIT
_build_sql_mutant(h, self) ==
    [where |-> h[self._filters],
     params |-> h[self._filter_params],
     order_by |-> self._order_by,
     limit |-> self._limit,
     offset |-> IF self._limit # None THEN self._offset ELSE None]
\* Query._build_sql: the SELECT statement, as its clauses.  An offset
\* without a limit gets LIMIT -1.
_build_sql(h, self) ==
    [where |-> h[self._filters],
     params |-> h[self._filter_params],
     order_by |-> self._order_by,
     limit |-> IF self._limit # None THEN self._limit
               ELSE IF self._offset # None THEN IntV(-1)
               ELSE None,
     offset |-> self._offset]

\* Query._build_sql: the keywords of sql_parts, in the order the clauses
\* are appended
sql_parts(h, self) ==
    <<"SELECT">>
    \o (IF h[self._filters] # <<>> THEN <<"WHERE">> ELSE <<>>)
    \o (IF self._order_by # None THEN <<"ORDER BY">> ELSE <<>>)
    \o (IF self._limit # None THEN <<"LIMIT">> ELSE <<>>)
    \o (IF self._offset # None
        THEN (IF self._limit = None THEN <<"LIMIT">> ELSE <<>>) \o <<"OFFSET">>
        ELSE <<>>)

\* the parameter the j-th fragment's '?' binds: placeholders bind in order
param_of(stmt, j) ==
    stmt.params[Cardinality({m \in 1..j : stmt.where[m].param})]

\* a raw fragment of filter(), as sqlite3 evaluates it on a row
raw_true(fields, text, row) ==
    CASE text = "id > 0" ->
            /\ row.cols[field_index(fields, "id")] # None
            /\ row.cols[field_index(fields, "id")].v > 0
      [] text = "id > 1" ->
            /\ row.cols[field_index(fields, "id")] # None
            /\ row.cols[field_index(fields, "id")].v > 1
      [] text = "name IS NOT NULL" ->
            row.cols[field_index(fields, "name")] # None

\* a WHERE clause whose fragments are joined by OR
sql_where_mutant(fields, stmt, row) ==
    \E j \in 1..Len(stmt.where) :
        IF stmt.where[j].param
        THEN SqlEq(row.cols[field_index(fields, stmt.where[j].text)],
                   adapt(param_of(stmt, j)))
        ELSE raw_true(fields, stmt.where[j].text, row)
\* WHERE <fragments joined by AND>
sql_where(fields, stmt, row) ==
    \A j \in 1..Len(stmt.where) :
        IF stmt.where[j].param
        THEN SqlEq(row.cols[field_index(fields, stmt.where[j].text)],
                   adapt(param_of(stmt, j)))
        ELSE raw_true(fields, stmt.where[j].text, row)

\* sqlite3's order of values: NULL, then numbers, then text
sql_rank(value) ==
    IF value = None THEN 0 ELSE IF isinstance_number(value) THEN 1 ELSE 2
sql_less(a, b) ==
    \/ sql_rank(a) < sql_rank(b)
    \/ sql_rank(a) = sql_rank(b) /\ a.v < b.v

\* the order of two rows in the result: by ORDER BY <column> ASC|DESC when
\* there is one, rows that tie (and all rows when there is none) in rowid
\* order, the order of the table scan
row_before(fields, clause, r1, r2) ==
    IF clause = None THEN r1.rowid < r2.rowid
    ELSE LET i == field_index(fields, clause.text)
             a == IF clause.direction = "ASC" THEN r1.cols[i] ELSE r2.cols[i]
             b == IF clause.direction = "ASC" THEN r2.cols[i] ELSE r1.cols[i]
         IN  sql_less(a, b) \/ (~sql_less(b, a) /\ r1.rowid < r2.rowid)

RECURSIVE sql_sorted(_, _, _)
sql_sorted(rows, fields, clause) ==
    IF rows = {} THEN <<>>
    ELSE LET top == CHOOSE r1 \in rows :
                        \A r2 \in rows \ {r1} : row_before(fields, clause, r1, r2)
         IN  <<top>> \o sql_sorted(rows \ {top}, fields, clause)

\* LIMIT n OFFSET m: a negative LIMIT is no limit
sql_limit(seq, lim, off) ==
    LET skip == IF off = None \/ off.v < 0 THEN 0 ELSE off.v
        upto == IF lim = None \/ lim.v < 0 THEN Len(seq)
                ELSE Min({Len(seq), skip + lim.v})
    IN  SubSeq(seq, skip + 1, upto)

\* the rows a SELECT returns, in order
sql_select(rows, fields, stmt) ==
    sql_limit(sql_sorted({row \in rows : sql_where(fields, stmt, row)},
                         fields, stmt.order_by),
              stmt.limit, stmt.offset)

\* what a terminal call returns: the exception, the list of instances (their
\* field values), a number, and self with the heap as the call left them
Fetched(exc, rows, n, h, self) ==
    [exc |-> exc, rows |-> rows, n |-> n, heap |-> h, self |-> self]

\* the list comprehension of Query.all over the fetched rows
hydrate(fields, sel) ==
    LET made == [k \in 1..Len(sel) |-> _row_to_model(fields, sel[k])]
    IN  [ok |-> \A k \in 1..Len(sel) : made[k].ok,
         rows |-> [k \in 1..Len(sel) |-> made[k].d]]

\* Query.all
all(c, h, self, db, t) ==
    LET sel == sql_select(t.rows, c.fields, _build_sql(h, self))
    IN  IF execute_error(db, t) # "none"
        THEN Fetched(execute_error(db, t), <<>>, 0, h, self)
        ELSE IF ~hydrate(c.fields, sel).ok
        THEN Fetched("ValidationError", <<>>, 0, h, self)
        ELSE Fetched("none", hydrate(c.fields, sel).rows, 0, h, self)

\* a first() that sets the limit on the query itself
first_mutant(c, h, self, db, t) ==
    LET query == [self EXCEPT !._limit = IntV(1)]
        sel == sql_select(t.rows, c.fields, _build_sql(h, query))
        one == SubSeq(sel, 1, Min({1, Len(sel)}))
    IN  IF execute_error(db, t) # "none"
        THEN Fetched(execute_error(db, t), <<>>, 0, h, query)
        ELSE IF ~hydrate(c.fields, one).ok
        THEN Fetched("ValidationError", <<>>, 0, h, query)
        ELSE Fetched("none", hydrate(c.fields, one).rows, 0, h, query)
\* Query.first: a clone with _limit = 1, and fetch_one
first(c, h, self, db, t) ==
    LET cl == _clone(h, self)
        query == [cl.query EXCEPT !._limit = IntV(1)]
        sel == sql_select(t.rows, c.fields, _build_sql(cl.heap, query))
        one == SubSeq(sel, 1, Min({1, Len(sel)}))
    IN  IF execute_error(db, t) # "none"
        THEN Fetched(execute_error(db, t), <<>>, 0, cl.heap, self)
        ELSE IF ~hydrate(c.fields, one).ok
        THEN Fetched("ValidationError", <<>>, 0, cl.heap, self)
        ELSE Fetched("none", hydrate(c.fields, one).rows, 0, cl.heap, self)

\* a count of the rows that all() would return, LIMIT and OFFSET applied
count_mutant(c, h, self, db, t) ==
    IF execute_error(db, t) # "none"
    THEN Fetched(execute_error(db, t), <<>>, 0, h, self)
    ELSE Fetched("none", <<>>,
                 Len(sql_select(t.rows, c.fields, _build_sql(h, self))), h, self)
\* Query.count: SELECT COUNT(*) with the WHERE clause only
count(c, h, self, db, t) ==
    LET stmt == [where |-> h[self._filters], params |-> h[self._filter_params]]
    IN  IF execute_error(db, t) # "none"
        THEN Fetched(execute_error(db, t), <<>>, 0, h, self)
        ELSE Fetched("none", <<>>,
                     Cardinality({row \in t.rows : sql_where(c.fields, stmt, row)}),
                     h, self)

\* Query.exists: [exc, value]
exists(c, h, self, db, t) ==
    [exc |-> count(c, h, self, db, t).exc,
     value |-> count(c, h, self, db, t).n > 0]

\* a terminal call on a Query the caller holds: the lists made for a clone
\* are garbage when it returns
Ran(op, q, res, key) ==
    /\ q \in LiveQ
    /\ last' = [Outcome(op, res.exc, q, key, {}, FALSE) EXCEPT !.rows = res.rows]
    /\ queries' = [queries EXCEPT ![q] = res.self]
    /\ heap' = SubSeq(res.heap, 1, Len(heap))
    /\ UNCHANGED snap
    /\ UNCHANGED record_vars
    /\ Observe

All(q) ==
    q \in LiveQ /\ Ran("all", q, all(cls, heap, queries[q], database, table), None)
First(q) ==
    q \in LiveQ /\ Ran("first", q, first(cls, heap, queries[q], database, table), None)
Count(q) ==
    q \in LiveQ /\ Ran("count", q, count(cls, heap, queries[q], database, table),
                       IntV(count(cls, heap, queries[q], database, table).n))
Exists(q) ==
    /\ q \in LiveQ
    /\ last' = Outcome("exists", exists(cls, heap, queries[q], database, table).exc, q,
                       BoolV(IF exists(cls, heap, queries[q], database, table).value
                             THEN 1 ELSE 0), {}, FALSE)
    /\ UNCHANGED query_vars
    /\ UNCHANGED record_vars
    /\ Observe

\* the arguments the caller passes to the builder calls
Kw(attr, value) == [attr |-> attr, value |-> value]
Raw(text) == [text |-> text, param |-> FALSE]
KwargsArgs ==
    { <<Kw("name", StrV(1))>>, <<Kw("id", IntV(1))>>, <<Kw("missing", IntV(1))>>,
      <<Kw("id", IntV(1)), Kw("name", StrV(1))>>,
      <<Kw("name", StrV(1)), Kw("missing", IntV(1))>> }
ConditionArgs == { <<Raw("id > 0")>>, <<Raw("id > 0"), Raw("name IS NOT NULL")>> }
FieldNameArgs == {"name", "missing"}
LimitArgs == {1, 2}

\* --------------------------------------------------------------- system
Init ==
    /\ cls = NoClass
    /\ recs = [r \in 1..MaxRecs |-> NoRec]
    /\ database = Closed
    /\ scope = FALSE
    /\ in_tx = FALSE
    /\ table = NoTable
    /\ disk = NoTable
    /\ hist = Unobserved
    /\ last = [op |-> "init", exc |-> "none", rec |-> 0, key |-> None,
               calls |-> {}, wrote |-> FALSE, omitted |-> {}, rows |-> <<>>]
    /\ queries = [q \in 1..MaxQueries |-> NoQuery]
    /\ heap = <<>>
    /\ snap = [q \in 1..MaxQueries |-> View(<< <<>> >>, [NoQuery EXCEPT !._filters = 1, !._filter_params = 1])]

\* the record type, its instances and their persistence, used as the tests
\* use it: every storage call inside a `with Database(...)` scope or outside
Next ==
    \/ \E d \in Decls : Declare(d)
    \/ Enter
    \/ \E failed \in BOOLEAN : Exit(failed)
    \/ CreateTable
    \/ \E kwargs \in [Columns -> ArgVals \cup {Omitted}] : New(kwargs)
    \/ \E r \in 1..MaxRecs, i \in Columns, value \in ArgVals : SetField(r, i, value)
    \/ \E r \in 1..MaxRecs : Save(r)
    \/ \E r \in 1..MaxRecs : Delete(r)
    \/ \E id \in KeyVals : Get(id)

Spec == Init /\ [][Next]_vars

\* ---------------------------------------------------- the unit of work
\* The Database class with every public method, around the writes of one
\* TestModel instance: TestModel is declared and TestModel(name='a') made.
InitDb ==
    /\ cls = model_fields("TestModel")
    /\ recs = [r \in 1..MaxRecs |->
                IF r = 1
                THEN [live |-> TRUE,
                      d |-> Model__init__(TestModel, <<Omitted, StrV(1)>>).d]
                ELSE NoRec]
    /\ database = Closed
    /\ scope = FALSE
    /\ in_tx = FALSE
    /\ table = NoTable
    /\ disk = NoTable
    /\ hist = Unobserved
    /\ last = [op |-> "init", exc |-> "none", rec |-> 0, key |-> None,
               calls |-> {}, wrote |-> FALSE, omitted |-> {}, rows |-> <<>>]
    /\ queries = [q \in 1..MaxQueries |-> NoQuery]
    /\ heap = <<>>
    /\ snap = [q \in 1..MaxQueries |-> View(<< <<>> >>, [NoQuery EXCEPT !._filters = 1, !._filter_params = 1])]

NextDb ==
    \/ Connect
    \/ Close
    \/ Enter
    \/ \E failed \in BOOLEAN : Exit(failed)
    \/ Commit
    \/ Rollback
    \/ CreateTable
    \/ DropTable
    \/ \E r \in 1..MaxRecs : Save(r)
    \/ \E r \in 1..MaxRecs : Delete(r)

SpecDb == InitDb /\ [][NextDb]_vars

\* --------------------------------------------------- the query builder
\* Queries over the declared TestModel: every builder call on every Query
\* the caller holds.
InitQ ==
    /\ InitDb

NextQ ==
    \/ Select
    \/ \E q \in 1..MaxQueries, conditions \in ConditionArgs : Filter(q, conditions)
    \/ \E q \in 1..MaxQueries, kwargs \in KwargsArgs : FilterBy(q, kwargs)
    \/ \E q \in 1..MaxQueries, f \in FieldNameArgs, ascending \in BOOLEAN :
            OrderBy(q, f, ascending)
    \/ \E q \in 1..MaxQueries, n \in LimitArgs : Limit(q, n)
    \/ \E q \in 1..MaxQueries, n \in LimitArgs : Offset(q, n)

SpecQ == InitQ /\ [][NextQ]_vars

\* ------------------------------------------------ deletes, observed
\* TestModel's instances and their persistence as in Spec, with an observer
\* that follows every key a successful delete removed a row of: "pending"
\* while the delete is uncommitted, "committed", "undone" once its
\* transaction was rolled back, "none" again when an insert adds the key.
InitDel ==
    /\ cls = model_fields("TestModel")
    /\ recs = [r \in 1..MaxRecs |-> NoRec]
    /\ database = Closed
    /\ scope = FALSE
    /\ in_tx = FALSE
    /\ table = NoTable
    /\ disk = NoTable
    /\ hist = NoHist
    /\ last = [op |-> "init", exc |-> "none", rec |-> 0, key |-> None,
               calls |-> {}, wrote |-> FALSE, omitted |-> {}, rows |-> <<>>]
    /\ queries = [q \in 1..MaxQueries |-> NoQuery]
    /\ heap = <<>>
    /\ snap = [q \in 1..MaxQueries |-> View(<< <<>> >>, [NoQuery EXCEPT !._filters = 1, !._filter_params = 1])]

NextDel ==
    \/ Enter
    \/ \E failed \in BOOLEAN : Exit(failed)
    \/ CreateTable
    \/ \E kwargs \in [Columns -> ArgVals \cup {Omitted}] : New(kwargs)
    \/ \E r \in 1..MaxRecs, i \in Columns, value \in ArgVals : SetField(r, i, value)
    \/ \E r \in 1..MaxRecs : Save(r)
    \/ \E r \in 1..MaxRecs : Delete(r)
    \/ \E id \in KeyVals : Get(id)

SpecDel == InitDel /\ [][NextDel]_vars

\* ------------------------------------------------- queries, executed
\* Queries over TestModel's table inside a Database scope: every builder
\* call and every terminal call on every Query the caller holds, over every
\* table of up to MaxRows rows that inserts and deletes of TestModel
\* instances named 'a' or 'aa' can leave.
StoredNames == {StrV(1), StrV(2)}
StoredTables ==
    {[exists |-> TRUE,
      rows |-> {[rowid |-> k, cols |-> <<IntV(k), names[k]>>] : k \in ids}] :
        ids \in SUBSET (1..MaxRows), names \in [1..MaxRows -> StoredNames]}

\* the arguments of the builder calls that precede a terminal call
QueryKwargs ==
    { <<Kw("name", StrV(1))>>, <<Kw("id", IntV(2))>>,
      <<Kw("name", StrV(1)), Kw("id", IntV(2))>> }
QueryConditions == { <<Raw("id > 1")>> }
QueryFieldNames == {"id", "name"}

InitX ==
    /\ cls = model_fields("TestModel")
    /\ recs = [r \in 1..MaxRecs |-> NoRec]
    /\ database = Open
    /\ scope = TRUE
    /\ in_tx = FALSE
    /\ table \in StoredTables
    /\ disk = table
    /\ hist = Unobserved
    /\ last = [op |-> "init", exc |-> "none", rec |-> 0, key |-> None,
               calls |-> {}, wrote |-> FALSE, omitted |-> {}, rows |-> <<>>]
    /\ queries = [q \in 1..MaxQueries |-> NoQuery]
    /\ heap = <<>>
    /\ snap = [q \in 1..MaxQueries |-> View(<< <<>> >>, [NoQuery EXCEPT !._filters = 1, !._filter_params = 1])]

NextX ==
    \/ Select
    \/ \E q \in 1..MaxQueries, conditions \in QueryConditions : Filter(q, conditions)
    \/ \E q \in 1..MaxQueries, kwargs \in QueryKwargs : FilterBy(q, kwargs)
    \/ \E q \in 1..MaxQueries, f \in QueryFieldNames, ascending \in BOOLEAN :
            OrderBy(q, f, ascending)
    \/ \E q \in 1..MaxQueries, n \in LimitArgs : Limit(q, n)
    \/ \E q \in 1..MaxQueries, n \in LimitArgs : Offset(q, n)
    \/ \E q \in 1..MaxQueries : All(q)
    \/ \E q \in 1..MaxQueries : First(q)
    \/ \E q \in 1..MaxQueries : Count(q)
    \/ \E q \in 1..MaxQueries : Exists(q)

SpecX == InitX /\ [][NextX]_vars

\* --------------------------------------------- misuse of the schema
\* The calls that need a primary key or a field name, on a declaration with
\* a primary key (TestModel) and on one without (NoKey), with the
\* connection open or closed and the table created or not.
SchemaKwargs == {<<Omitted, StrV(1)>>, <<StrV(1), Omitted>>}
SchemaFilters == {<<Kw("name", StrV(1))>>, <<Kw("name", StrV(1)), Kw("missing", IntV(1))>>}
InitU ==
    /\ cls \in {model_fields("TestModel"), model_fields("NoKey")}
    /\ recs = [r \in 1..MaxRecs |-> NoRec]
    /\ database \in {Closed, Open}
    /\ scope = (database = Open)
    /\ in_tx = FALSE
    /\ table \in {NoTable, [exists |-> TRUE, rows |-> {}]}
    /\ disk = table
    /\ hist = Unobserved
    /\ last = [op |-> "init", exc |-> "none", rec |-> 0, key |-> None,
               calls |-> {}, wrote |-> FALSE, omitted |-> {}, rows |-> <<>>]
    /\ queries = [q \in 1..MaxQueries |-> NoQuery]
    /\ heap = <<>>
    /\ snap = [q \in 1..MaxQueries |-> View(<< <<>> >>, [NoQuery EXCEPT !._filters = 1, !._filter_params = 1])]

NextU ==
    \/ \E kwargs \in SchemaKwargs : New(kwargs)
    \/ \E r \in 1..MaxRecs : Save(r)
    \/ \E r \in 1..MaxRecs : Update(r)
    \/ \E r \in 1..MaxRecs : Delete(r)
    \/ \E id \in KeyVals : Get(id)
    \/ Select
    \/ \E q \in 1..MaxQueries, kwargs \in SchemaFilters : FilterBy(q, kwargs)
    \/ \E q \in 1..MaxQueries, f \in FieldNameArgs : OrderBy(q, f, TRUE)

SpecU == InitU /\ [][NextU]_vars

\* ------------------------------------------------- the Boolean field
\* Records of Flagged (TestModel's id and active columns), given every kind
\* of value for active at construction and by assignment, and persisted.
BoolArgs == {None, BoolV(0), BoolV(1), IntV(0), IntV(1), IntV(2), IntV(-1),
             FloatV(1), StrV(1)}
ActiveKwargs == {<<Omitted, value>> : value \in BoolArgs \cup {Omitted}}
InitB ==
    /\ cls = model_fields("Flagged")
    /\ recs = [r \in 1..MaxRecs |-> NoRec]
    /\ database = Closed
    /\ scope = FALSE
    /\ in_tx = FALSE
    /\ table = NoTable
    /\ disk = NoTable
    /\ hist = Unobserved
    /\ last = [op |-> "init", exc |-> "none", rec |-> 0, key |-> None,
               calls |-> {}, wrote |-> FALSE, omitted |-> {}, rows |-> <<>>]
    /\ queries = [q \in 1..MaxQueries |-> NoQuery]
    /\ heap = <<>>
    /\ snap = [q \in 1..MaxQueries |-> View(<< <<>> >>, [NoQuery EXCEPT !._filters = 1, !._filter_params = 1])]

NextB ==
    \/ Enter
    \/ \E failed \in BOOLEAN : Exit(failed)
    \/ CreateTable
    \/ \E kwargs \in ActiveKwargs : New(kwargs)
    \/ \E r \in 1..MaxRecs, value \in BoolArgs : SetField(r, 2, value)
    \/ \E r \in 1..MaxRecs : Save(r)
    \/ \E id \in KeyVals : Get(id)

SpecB == InitB /\ [][NextB]_vars

\* ------------------------------------------ calls without a connection
\* The Database class as in SpecDb, with every call of the record type and
\* of Query that reaches execute, fetch_one or fetch_all, made before
\* connect, inside a scope and after it.
NextC ==
    \/ Connect
    \/ Close
    \/ Enter
    \/ \E failed \in BOOLEAN : Exit(failed)
    \/ Commit
    \/ Rollback
    \/ CreateTable
    \/ DropTable
    \/ \E r \in 1..MaxRecs : Save(r)
    \/ \E r \in 1..MaxRecs : Delete(r)
    \/ \E id \in KeyVals : Get(id)
    \/ Select
    \/ \E q \in 1..MaxQueries : All(q)
    \/ \E q \in 1..MaxQueries : First(q)
    \/ \E q \in 1..MaxQueries : Count(q)
    \/ \E q \in 1..MaxQueries : Exists(q)

SpecC == InitDb /\ [][NextC]_vars

\* ============================================================== claims
\* C1 (over Spec): after a save that inserted the record and returned, get
\* with the record's primary-key value returns a record whose every field,
\* the primary key included, equals the saved record's field.
C1_RoundTrip ==
    (last.op = "save" /\ last.exc = "none" /\ cls.primary_key # 0
        /\ last.key # IntV(0)) =>
        LET self == recs[last.rec].d
            res == get(cls, database, table, self[cls.primary_key])
        IN  /\ res.exc = "none"
            /\ res.found
            /\ \A i \in 1..Len(cls.fields) : PyEq(res.d[i], self[i])

\* C2 as stated (over SpecDel): once delete has succeeded on a persisted
\* record whose primary key was k, get(k) returns None in every later state
\* until a record is inserted again with key k.
C2_DeleteThenGet ==
    \A k \in 1..MaxRowid :
        (hist[k] \in {"pending", "committed", "undone"} /\ database._cursor) =>
            LET res == get(cls, database, table, IntV(k))
            IN  res.exc = "none" /\ ~res.found

\* C2 amended (over SpecDel): once delete has succeeded on a persisted record
\* whose primary key was k, get(k) returns None in every later state until a
\* record is inserted again with key k or the transaction the delete ran in
\* is rolled back.
C2_DeleteThenGetUnlessRolledBack ==
    \A k \in 1..MaxRowid :
        (hist[k] \in {"pending", "committed"} /\ database._cursor) =>
            LET res == get(cls, database, table, IntV(k))
            IN  res.exc = "none" /\ ~res.found

\* a get(k) that returned None on a later connection, after the delete of k
\* was committed
C2_Witness ==
    \E k \in 1..MaxRowid :
        /\ hist[k] = "committed"
        /\ database._cursor
        /\ last.op = "get" /\ last.key = IntV(k)
        /\ last.exc = "none" /\ last.rec = 0

\* C3 (over Spec): a save whose statement ran dispatches on the primary key:
\* with no primary key in the schema, or with the record's primary key None,
\* it inserts, adding exactly one row and changing no other; with a primary
\* key that is not None it updates, adding and removing no row, setting the
\* non-key columns of each row with that key to the record's values and
\* leaving every other row as it was.
C3_SaveDispatch ==
    [][(last'.op = "save" /\ last'.exc \in {"none", "ValidationError"}) =>
        LET self == recs[last'.rec].d
            pk == cls.primary_key
            fields == cls.fields
        IN  IF pk = 0 \/ self[pk] = None
            THEN /\ table.rows \subseteq table'.rows
                 /\ Cardinality(table'.rows) = Cardinality(table.rows) + 1
            ELSE /\ Cardinality(table'.rows) = Cardinality(table.rows)
                 /\ \A row \in table.rows :
                        \E new \in table'.rows :
                            /\ new.rowid = row.rowid
                            /\ IF SqlEq(row.cols[pk], adapt(self[pk]))
                               THEN \A i \in 1..Len(fields) :
                                        new.cols[i] = IF fields[i].primary_key
                                                      THEN row.cols[i]
                                                      ELSE to_column(fields[i], self[i])
                               ELSE new = row
    ]_vars

\* an update that returned and changed the stored row
C3_Witness ==
    /\ last.op = "save" /\ last.exc = "none"
    /\ last.key = IntV(0)
    /\ last.wrote
    /\ cls.primary_key # 0

\* C4 as stated (over Spec): a record constructed without a primary-key
\* value has primary key None; a primary key that is None stays None through
\* every call but a save of that record that returns (a failed insert leaves
\* it None); and after an insert that returned, the primary key is the rowid
\* of the one row the insert added.
C4_KeyLifecycle ==
    [][LET pk == cls.primary_key
       IN  /\ (last'.op = "new" /\ last'.exc = "none" /\ pk \in last'.omitted) =>
                recs'[last'.rec].d[pk] = None
           /\ \A r \in Live :
                (pk # 0 /\ recs[r].d[pk] = None /\ recs'[r].d[pk] # None) =>
                    (last'.op = "save" /\ last'.rec = r /\ last'.exc = "none")
           /\ (last'.op = "save" /\ last'.exc = "none" /\ pk # 0
                /\ recs[last'.rec].d[pk] = None) =>
                \E row \in table'.rows :
                    /\ table'.rows = table.rows \cup {row}
                    /\ row \notin table.rows
                    /\ recs'[last'.rec].d[pk] = IntV(row.rowid)
                    /\ row.cols[pk] = IntV(row.rowid)
    ]_vars

\* C4 amended (over Spec): as C4, where a primary key that is None stays None
\* through every call but a save of that record that returns and an
\* assignment to the record's primary-key field by the caller.
C4_KeyLifecycleUnlessAssigned ==
    [][LET pk == cls.primary_key
       IN  /\ (last'.op = "new" /\ last'.exc = "none" /\ pk \in last'.omitted) =>
                recs'[last'.rec].d[pk] = None
           /\ \A r \in Live :
                (pk # 0 /\ recs[r].d[pk] = None /\ recs'[r].d[pk] # None) =>
                    \/ last'.op = "save" /\ last'.rec = r /\ last'.exc = "none"
                    \/ last'.op = "set" /\ last'.rec = r /\ last'.exc = "none"
           /\ (last'.op = "save" /\ last'.exc = "none" /\ pk # 0
                /\ recs[last'.rec].d[pk] = None) =>
                \E row \in table'.rows :
                    /\ table'.rows = table.rows \cup {row}
                    /\ row \notin table.rows
                    /\ recs'[last'.rec].d[pk] = IntV(row.rowid)
                    /\ row.cols[pk] = IntV(row.rowid)
    ]_vars

\* a record whose insert returned: its primary key is the rowid assigned
C4_Witness ==
    /\ last.op = "save" /\ last.exc = "none"
    /\ last.key # IntV(0)
    /\ cls.primary_key # 0
    /\ recs[last.rec].d[cls.primary_key] = last.key

\* C5 (over SpecDb): when a Database scope ends, the connection is released
\* (cursor and connection cleared); a scope that ends normally has called
\* commit and not rollback, a scope that ends with an error has called
\* rollback and not commit.
C5_UnitOfWork ==
    /\ last.op \in {"exit", "exit_error"} =>
            (last.exc = "none" /\ database = Closed /\ "close" \in last.calls)
    /\ last.op = "exit" =>
            ("commit" \in last.calls /\ "rollback" \notin last.calls)
    /\ last.op = "exit_error" =>
            ("rollback" \in last.calls /\ "commit" \notin last.calls)

\* C6 (over SpecQ): every Query the caller holds keeps the filters, bound
\* parameters, ordering, limit and offset it had when it was returned,
\* through every later builder call on it or on any other Query, failed
\* calls included; and no two Query objects share a list.
C6_QueryImmutable ==
    /\ \A q \in LiveQ : View(heap, queries[q]) = snap[q]
    /\ \A q1, q2 \in LiveQ :
            /\ queries[q1]._filters # queries[q1]._filter_params
            /\ q1 # q2 => /\ queries[q1]._filters # queries[q2]._filters
                          /\ queries[q1]._filter_params # queries[q2]._filter_params

\* a filter_by on a Query that has filters returned a Query with more of
\* them, and the source still has its own
C6_Witness ==
    /\ last.op = "filter_by" /\ last.exc = "none"
    /\ last.key # IntV(0)
    /\ snap[last.key.v]._filters # <<>>
    /\ Len(snap[last.rec]._filters) > Len(snap[last.key.v]._filters)
    /\ View(heap, queries[last.key.v]) = snap[last.key.v]

\* C7 (over Spec): every field value of every record the caller holds
\* satisfies its field's rule: None only in a nullable field, an int in an
\* IntegerField, a str of at most max_length characters in a StringField, a
\* bool in a BooleanField, a datetime in a DateTimeField, an int or a float
\* in a FloatField.
C7_Validity ==
    \A r \in Live :
        \A i \in 1..Len(cls.fields) :
            LET field == cls.fields[i]
                value == recs[r].d[i]
            IN  IF value = None THEN field.nullable
                ELSE CASE field.kind = "IntegerField" -> value.t \in {"int", "bool"}
                       [] field.kind = "StringField" ->
                            value.t \in {"str", "isostr"} /\ len(value) <= field.max_length
                       [] field.kind = "BooleanField" -> value.t = "bool"
                       [] field.kind = "DateTimeField" -> value.t = "datetime"
                       [] field.kind = "FloatField" -> value.t \in {"int", "bool", "float"}

\* a record hydrated from a row whose BOOLEAN column holds the integer 1
C7_Witness ==
    /\ last.op = "get" /\ last.exc = "none" /\ last.rec # 0
    /\ cls.name = "Flagged"
    /\ recs[last.rec].d[2] = BoolV(1)
    /\ \E row \in table.rows : row.cols[2] = IntV(1)

\* C8 (over Spec): a constructor call that passes no value for a field that
\* is not nullable and has no default raises the validation error and
\* leaves the caller with no new record.
C8_RequiredField ==
    [][(last'.op = "new"
            /\ \E i \in last'.omitted :
                    ~cls.fields[i].nullable /\ cls.fields[i].default = None) =>
        (last'.exc = "ValidationError" /\ last'.rec = 0 /\ recs' = recs)
    ]_vars

\* a constructor call that failed for a required field left out
C8_Witness ==
    /\ last.op = "new" /\ last.exc = "ValidationError"
    /\ \E i \in last.omitted :
            ~cls.fields[i].nullable /\ cls.fields[i].default = None

\* C9 (over Spec): no declared record type has more than one field marked
\* primary_key (the declaration of one fails).
C9_SinglePrimaryKey ==
    cls # NoClass => Cardinality(pk_fields(cls.fields)) <= 1

\* C10 (over Spec): a call on a record type or record that raises the
\* validation error leaves the stored rows as they were before the call.
C10_ValidationBeforeStorage ==
    [][last'.exc = "ValidationError" => table'.rows = table.rows]_vars

\* C11 (over Spec): a save that returns on a persisted record (its primary
\* key is set and a row with that key is stored) leaves the number of rows
\* as it was, and a second save of the unchanged record returns too and
\* leaves the table, the record and what get returns for its key exactly as
\* the first save left them.
C11_IdempotentUpdate ==
    [][LET pk == cls.primary_key
           r == last'.rec
       IN  (/\ last'.op = "save" /\ last'.exc = "none"
            /\ pk # 0
            /\ recs[r].d[pk] # None
            /\ \E row \in table.rows : SqlEq(row.cols[pk], adapt(recs[r].d[pk]))) =>
           LET again == save(cls, recs'[r].d, database', table')
           IN  /\ Cardinality(table'.rows) = Cardinality(table.rows)
               /\ again.exc = "none"
               /\ again.table = table'
               /\ again.d = recs'[r].d
               /\ get(cls, database', again.table, recs'[r].d[pk])
                    = get(cls, database', table', recs'[r].d[pk])
    ]_vars

\* a save of a persisted record whose row already held the record's values:
\* the second of two saves
C11_Witness ==
    /\ last.op = "save" /\ last.exc = "none"
    /\ last.key = IntV(0)
    /\ ~last.wrote
    /\ cls.primary_key # 0
    /\ \E row \in table.rows :
            /\ SqlEq(row.cols[cls.primary_key], adapt(recs[last.rec].d[cls.primary_key]))
            /\ \A i \in 1..Len(cls.fields) :
                    row.cols[i] = to_column(cls.fields[i], recs[last.rec].d[i])

C13_CountAndExists ==
    last.op \in {"count", "exists"} /\ last.exc = "none" =>
        LET query == snap[last.rec]
            bound(j) == query._filter_params[
                            Cardinality({m \in 1..j : query._filters[m].param})]
            satisfies(row) ==
                \A j \in 1..Len(query._filters) :
                    IF query._filters[j].param
                    THEN LET col == row.cols[field_index(cls.fields, query._filters[j].text)]
                         IN  col # None /\ bound(j) # None /\ PyEq(col, bound(j))
                    ELSE raw_true(cls.fields, query._filters[j].text, row)
            number == Cardinality({row \in table.rows : satisfies(row)})
        IN  /\ last.op = "count" => last.key = IntV(number)
            /\ last.op = "exists" => last.key = BoolV(IF number > 0 THEN 1 ELSE 0)

\* count() on a filtered query that carries a limit of 1 and an ordering
\* returned 2
C13_Witness ==
    /\ last.op = "count" /\ last.exc = "none"
    /\ Len(snap[last.rec]._filters) > 0
    /\ snap[last.rec]._limit = IntV(1)
    /\ last.key = IntV(2)

\* C14 (over SpecX): all() on a query with a limit and/or an offset returns
\* the contiguous slice of the result the same query gives without them,
\* starting at the offset (0 when none is set) and holding at most limit
\* elements (all the remaining ones when none is set); in particular an
\* offset without a limit returns everything after the skipped rows.
C14_LimitOffsetSlice ==
    last.op = "all" /\ last.exc = "none" =>
        LET query == queries[last.rec]
            whole == all(cls, heap, [query EXCEPT !._limit = None, !._offset = None],
                         database, table).rows
            skip == IF query._offset = None THEN 0 ELSE query._offset.v
            upto == IF query._limit = None THEN Len(whole)
                    ELSE Min({Len(whole), skip + query._limit.v})
        IN  last.rows = SubSeq(whole, skip + 1, upto)

\* all() on a query with an offset and no limit returned the two rows that
\* follow the skipped one
C14_Witness ==
    /\ last.op = "all" /\ last.exc = "none"
    /\ queries[last.rec]._offset = IntV(1)
    /\ queries[last.rec]._limit = None
    /\ Len(last.rows) = 2

\* C15 (over SpecX): the query an order_by(field, ascending) call returns
\* is ordered by that field and direction whatever ordering its source
\* had, and all() on an ordered query returns its rows sorted by the
\* query's one active ordering: values never decrease when ascending and
\* never increase when not; ordering neither adds nor drops rows.
C15_Ordering ==
    [][LET sorted(rows, i, ascending) ==
               \A k \in 1..(Len(rows) - 1) :
                   IF ascending THEN rows[k][i].v <= rows[k + 1][i].v
                   ELSE rows[k][i].v >= rows[k + 1][i].v
           fetched(query) == all(cls, heap', query, database', table').rows
           elements(rows) == {rows[k] : k \in 1..Len(rows)}
       IN  /\ (last'.op = "order_by" /\ last'.exc = "none") =>
                \A q \in 1..MaxQueries, f \in QueryFieldNames, ascending \in BOOLEAN :
                    OrderBy(q, f, ascending) =>
                        /\ queries'[last'.rec]._order_by # None
                        /\ sorted(fetched(queries'[last'.rec]),
                                  field_index(cls.fields, f), ascending)
           /\ (/\ last'.op = "all" /\ last'.exc = "none"
               /\ queries'[last'.rec]._order_by # None) =>
                LET query == queries'[last'.rec]
                    bare(x) == [x EXCEPT !._limit = None, !._offset = None]
                IN  /\ sorted(last'.rows,
                              field_index(cls.fields, query._order_by.text),
                              query._order_by.direction = "ASC")
                    /\ elements(fetched(bare(query)))
                         = elements(fetched([bare(query) EXCEPT !._order_by = None]))
                    /\ Len(fetched(bare(query)))
                         = Len(fetched([bare(query) EXCEPT !._order_by = None]))]_vars

\* all() ran on a query ordered by id descending that was derived from a
\* query ordered by name, and returned three rows whose names ascend
C15_Witness ==
    /\ last.op = "all" /\ last.exc = "none"
    /\ queries[last.rec]._order_by = [text |-> "id", direction |-> "DESC"]
    /\ \E q \in LiveQ : /\ queries[q]._order_by # None
                        /\ queries[q]._order_by.text = "name"
    /\ Len(last.rows) = 3
    /\ last.rows[1][2].v < last.rows[3][2].v

\* C16 (over SpecX): first() on a query q returns the first element of what
\* all() returns for a copy of q whose limit is 1 (same filters, ordering
\* and offset), or nothing when that list is empty, and leaves q's limit
\* and the rest of q, its lists included, as they were.
C16_FirstIsLimitOne ==
    [][last'.op = "first" =>
        LET q == last'.rec
            copy == [queries[q] EXCEPT !._limit = IntV(1)]
            expected == all(cls, heap, copy, database, table)
        IN  /\ last'.exc = expected.exc
            /\ last'.rows = IF expected.rows = <<>> THEN <<>>
                            ELSE <<expected.rows[1]>>
            /\ queries'[q] = queries[q]
            /\ View(heap', queries'[q]) = View(heap, queries[q])
            /\ \A other \in LiveQ :
                   View(heap', queries'[other]) = View(heap, queries[other])]_vars

\* first() returned a row for a query whose own limit is, and stays, 2,
\* and whose offset skips a row
C16_Witness ==
    /\ last.op = "first" /\ last.exc = "none"
    /\ queries[last.rec]._limit = IntV(2)
    /\ queries[last.rec]._offset = IntV(1)
    /\ Len(last.rows) = 1

\* C17 (over SpecU): _update, delete and get on a declaration without a
\* primary key, and filter_by and order_by with a name that is not a field,
\* fail with the schema-usage error whatever the state of the connection
\* and of the table (so before a statement could fail or open a
\* transaction), and a call that fails so leaves the stored rows, the
\* transaction state, every record and every query as they were.
C17_SchemaUsageFirst ==
    [][LET unknown(kwargs) ==
               \E j \in 1..Len(kwargs) : field_index(cls.fields, kwargs[j].attr) = 0
       IN  /\ (last'.op \in {"_update", "delete", "get"} /\ cls.primary_key = 0) =>
                last'.exc = "SchemaUsageError"
           /\ last'.op = "filter_by" =>
                \A q \in 1..MaxQueries, kwargs \in SchemaFilters :
                    FilterBy(q, kwargs) /\ unknown(kwargs) =>
                        last'.exc = "SchemaUsageError"
           /\ last'.op = "order_by" =>
                \A q \in 1..MaxQueries, f \in FieldNameArgs :
                    OrderBy(q, f, TRUE) /\ field_index(cls.fields, f) = 0 =>
                        last'.exc = "SchemaUsageError"
           /\ last'.exc = "SchemaUsageError" =>
                /\ table' = table /\ disk' = disk /\ in_tx' = in_tx
                /\ recs' = recs
                /\ queries' = queries
                /\ \A q \in LiveQ : View(heap', queries'[q]) = View(heap, queries[q])]_vars

\* delete failed with the schema-usage error on a saved record of the
\* declaration without a primary key, its row still stored
C17_Witness ==
    /\ last.op = "delete" /\ last.exc = "SchemaUsageError"
    /\ cls.primary_key = 0
    /\ table.rows # {}
    /\ LiveQ # {}

\* C18 (over Spec): a record constructed without a value for a DateTime
\* field declared with auto_now_add holds a value other than None in that
\* field from construction on, and no save of the record changes the
\* value of such a field.
C18_AutoNowAdd ==
    [][LET stamps == {i \in 1..Len(cls'.fields) : cls'.fields[i].auto_now_add}
       IN  /\ (last'.op = "new" /\ last'.exc = "none") =>
                \A i \in stamps \cap last'.omitted : recs'[last'.rec].d[i] # None
           /\ (last'.op = "save" /\ last'.rec \in Live) =>
                \A i \in stamps : recs'[last'.rec].d[i] = recs[last'.rec].d[i]]_vars

\* C19 as stated (over SpecB): giving a Boolean field the integer 1 or 0,
\* at construction or by assignment, stores True or False; giving it a
\* boolean stores that boolean; giving it any other value fails with the
\* validation error and stores nothing.
C19_BooleanCoercion ==
    [][LET given(value, exc, r) ==
               IF value \in {IntV(1), BoolV(1)}
               THEN exc = "none" /\ recs'[r].d[2] = BoolV(1)
               ELSE IF value \in {IntV(0), BoolV(0)}
               THEN exc = "none" /\ recs'[r].d[2] = BoolV(0)
               ELSE exc = "ValidationError" /\ recs' = recs
       IN  /\ last'.op = "set" =>
                \A r \in 1..MaxRecs, value \in BoolArgs :
                    SetField(r, 2, value) => given(value, last'.exc, r)
           /\ last'.op = "new" =>
                \A kwargs \in ActiveKwargs :
                    (New(kwargs) /\ kwargs[2] # Omitted) =>
                        given(kwargs[2], last'.exc, Min(Free))]_vars

\* C19 amended (over SpecB): as C19, where the values that fail are every
\* integer other than 0 and 1 and every value that is neither a boolean
\* nor an integer nor None on a nullable field.
C19_BooleanCoercionButNone ==
    [][LET given(value, exc, r) ==
               IF value \in {IntV(1), BoolV(1)}
               THEN exc = "none" /\ recs'[r].d[2] = BoolV(1)
               ELSE IF value \in {IntV(0), BoolV(0)}
               THEN exc = "none" /\ recs'[r].d[2] = BoolV(0)
               ELSE IF value = None /\ cls.fields[2].nullable
               THEN TRUE
               ELSE exc = "ValidationError" /\ recs' = recs
       IN  /\ last'.op = "set" =>
                \A r \in 1..MaxRecs, value \in BoolArgs :
                    SetField(r, 2, value) => given(value, last'.exc, r)
           /\ last'.op = "new" =>
                \A kwargs \in ActiveKwargs :
                    (New(kwargs) /\ kwargs[2] # Omitted) =>
                        given(kwargs[2], last'.exc, Min(Free))]_vars

\* an assignment left True in a record's active field while another record
\* holds False
C19_Witness ==
    /\ last.op = "set" /\ last.exc = "none"
    /\ recs[last.rec].d[2] = BoolV(1)
    /\ \E r \in Live : r # last.rec /\ recs[r].d[2] = BoolV(0)

\* C20 (over Spec): a save or delete of record r changes at most one stored
\* row: a row the insert added, or else a row whose key column equals r's
\* primary key; in memory it changes at most r's primary-key field: every
\* other field of r and every other record, another record hydrated from
\* the same row included, is as it was.
C20_Frame ==
    [][(last'.op \in {"save", "delete"} /\ last'.rec \in Live) =>
        LET r == last'.rec
            pk == cls.primary_key
            at(rows, k) == {row \in rows : row.rowid = k}
            changed == {k \in {row.rowid : row \in table.rows \cup table'.rows} :
                            at(table.rows, k) # at(table'.rows, k)}
        IN  /\ table'.exists = table.exists
            /\ Cardinality(changed) <= 1
            /\ \A k \in changed :
                   IF at(table.rows, k) = {}
                   THEN last'.op = "save" /\ save_inserts(cls, recs[r].d)
                   ELSE \A row \in at(table.rows, k) :
                            pk # 0 /\ SqlEq(row.cols[pk], adapt(recs[r].d[pk]))
            /\ \A other \in 1..MaxRecs : other # r => recs'[other] = recs[other]
            /\ \A i \in 1..Len(cls.fields) : i # pk => recs'[r].d[i] = recs[r].d[i]]_vars

\* a delete removed the row of a record and set its key to None, while a
\* second record hydrated from the same row keeps the key of the row that
\* is gone
C20_Witness ==
    /\ last.op = "delete" /\ last.exc = "none" /\ last.wrote
    /\ cls.primary_key # 0
    /\ recs[last.rec].d[cls.primary_key] = None
    /\ \E other \in Live :
          /\ other # last.rec
          /\ recs[other].d[cls.primary_key] = last.key
          /\ \A row \in table.rows : ~SqlEq(row.cols[cls.primary_key], adapt(last.key))

\* C21 (over Spec): nothing written inside a Database scope is durable
\* before the scope ends; a scope that ends with an error leaves the store
\* as it was committed, so that none of the scope's writes (inserts,
\* updates, deletes, table creation) is visible afterwards; a scope that
\* ends normally makes all of them visible.
C21_RollbackAtomicity ==
    [][/\ (scope /\ scope') => disk' = disk
       /\ (last'.op = "exit_error" /\ last'.exc = "none") =>
            (disk' = disk /\ table' = disk)
       /\ (last'.op = "exit" /\ last'.exc = "none") =>
            (disk' = table /\ table' = table)]_vars

\* C22 (over Spec): a delete that returns leaves None in the record's
\* primary key, and a save of a record whose primary key is None (as it is
\* from the delete on) changes no stored row and, when it returns, has
\* added exactly one row and put that row's generated rowid in the
\* record's primary key: it is an insert, not an update.
C22_ResaveAfterDelete ==
    [][LET pk == cls.primary_key
           r == last'.rec
       IN  /\ (last'.op = "delete" /\ last'.exc = "none") =>
                (pk # 0 /\ recs'[r].d[pk] = None)
           /\ (last'.op = "save" /\ pk # 0 /\ recs[r].d[pk] = None) =>
                /\ table.rows \subseteq table'.rows
                /\ last'.exc = "none" =>
                     \E row \in table'.rows \ table.rows :
                        /\ table'.rows = table.rows \cup {row}
                        /\ row.rowid = next_rowid(table.rows)
                        /\ recs'[r].d[pk] = IntV(row.rowid)]_vars

\* the only record there is was saved and its row committed, then it was
\* deleted and saved again: the insert added a row under the rowid that the
\* committed store still holds
C22_Witness ==
    /\ last.op = "save" /\ last.exc = "none" /\ last.wrote
    /\ Cardinality(Live) = 1
    /\ scope /\ in_tx
    /\ last.key # IntV(0)
    /\ cls.primary_key # 0
    /\ recs[last.rec].d[cls.primary_key] = last.key
    /\ \E row \in disk.rows : IntV(row.rowid) = last.key

\* C23 (over SpecX): on every query a builder call has returned, limit,
\* offset and order_by applied in either order, and each of them applied
\* before or after a filter_by, give queries with the same compiled
\* statement (clauses and bound parameters) and the same result of all();
\* the statement's clauses stand in the order SELECT, WHERE, ORDER BY,
\* LIMIT, OFFSET.
C23_BuildersCommute ==
    (last.op \in {"select", "filter", "filter_by", "order_by", "limit", "offset"}
        /\ last.exc = "none") =>
        LET q == queries[last.rec]
            L(b, n) == limit(b.heap, b.query, n)
            O(b, n) == offset(b.heap, b.query, n)
            S(b, f, a) == order_by(cls.fields, b.heap, b.query, f, a)
            F(b, kw) == filter_by(cls.fields, b.heap, b.query, kw)
            start == Built(TRUE, heap, q)
            rank(word) == CASE word = "SELECT" -> 1 [] word = "WHERE" -> 2
                            [] word = "ORDER BY" -> 3 [] word = "LIMIT" -> 4
                            [] word = "OFFSET" -> 5
            ordered(parts) ==
                \A k \in 1..(Len(parts) - 1) : rank(parts[k]) < rank(parts[k + 1])
            same(x, y) ==
                /\ x.ok /\ y.ok
                /\ _build_sql(x.heap, x.query) = _build_sql(y.heap, y.query)
                /\ sql_parts(x.heap, x.query) = sql_parts(y.heap, y.query)
                /\ ordered(sql_parts(x.heap, x.query))
                /\ all(cls, x.heap, x.query, database, table).rows
                     = all(cls, y.heap, y.query, database, table).rows
        IN  /\ \A n \in LimitArgs, m \in LimitArgs :
                    same(O(L(start, n), m), L(O(start, m), n))
            /\ \A n \in LimitArgs, f \in QueryFieldNames, a \in BOOLEAN :
                    /\ same(S(L(start, n), f, a), L(S(start, f, a), n))
                    /\ same(S(O(start, n), f, a), O(S(start, f, a), n))
            /\ \A n \in LimitArgs, kw \in QueryKwargs :
                    /\ same(F(L(start, n), kw), L(F(start, kw), n))
                    /\ same(F(O(start, n), kw), O(F(start, kw), n))
            /\ \A f \in QueryFieldNames, a \in BOOLEAN, kw \in QueryKwargs :
                    same(F(S(start, f, a), kw), S(F(start, kw), f, a))

\* a query with an ordering, an offset and no limit was returned by
\* offset: its statement is SELECT, ORDER BY, LIMIT, OFFSET
C23_Witness ==
    /\ last.op = "offset" /\ last.exc = "none"
    /\ sql_parts(heap, queries[last.rec])
         = <<"SELECT", "ORDER BY", "LIMIT", "OFFSET">>
    /\ queries[last.rec]._limit = None
    /\ Cardinality(table.rows) = MaxRows

\* C24 (over SpecQ): a filter_by call that returns gives a query whose
\* WHERE fragments are its source's followed by one '<column> = ?' per
\* keyword, and whose parameters are its source's followed by the keywords'
\* values in the same order; a filter call adds its fragments and no
\* parameter; so in every query's compiled statement the number of
\* parameters is the number of filter_by fragments and the i-th parameter
\* is bound by the i-th of them from the left.
C24_ParameterAlignment ==
    [][/\ (last'.op = "filter_by" /\ last'.exc = "none") =>
            \A q \in 1..MaxQueries, kwargs \in KwargsArgs :
                FilterBy(q, kwargs) =>
                    LET old == View(heap, queries[q])
                        new == View(heap', queries'[last'.rec])
                    IN  /\ new._filters = old._filters \o
                              [j \in 1..Len(kwargs) |->
                                  [text |-> kwargs[j].attr, param |-> TRUE]]
                        /\ new._filter_params = old._filter_params \o
                              [j \in 1..Len(kwargs) |-> kwargs[j].value]
       /\ last'.op = "filter" =>
            \A q \in 1..MaxQueries, conditions \in ConditionArgs :
                Filter(q, conditions) =>
                    LET old == View(heap, queries[q])
                        new == View(heap', queries'[last'.rec])
                    IN  /\ new._filters = old._filters \o conditions
                        /\ \A j \in 1..Len(conditions) : ~conditions[j].param
                        /\ new._filter_params = old._filter_params
       /\ \A q \in 1..MaxQueries :
            queries'[q].live =>
                LET stmt == _build_sql(heap', queries'[q])
                    bound == {j \in 1..Len(stmt.where) : stmt.where[j].param}
                IN  /\ Len(stmt.params) = Cardinality(bound)
                    /\ \A j \in bound :
                          /\ param_of(stmt, j)
                               = stmt.params[Cardinality({m \in bound : m <= j})]
                          /\ stmt.where[j].text = "id" => param_of(stmt, j).t = "int"
                          /\ stmt.where[j].text = "name" => param_of(stmt, j).t = "str"]_vars

\* a query built by filter and then filter_by with two keywords: its
\* statement has a raw fragment before two bound ones, and two parameters
C24_Witness ==
    /\ last.op = "filter_by" /\ last.exc = "none"
    /\ LET stmt == _build_sql(heap, queries[last.rec])
       IN  /\ Len(stmt.params) = 2
           /\ Len(stmt.where) >= 3
           /\ ~stmt.where[1].param
           /\ stmt.where[Len(stmt.where) - 1].param
           /\ stmt.where[Len(stmt.where)].param
           /\ stmt.params[1] # stmt.params[2]

\* C25 (over Spec): after a save of a record of a declaration with a
\* primary key has returned, the table holds a row whose key column equals
\* the record's primary key and whose other columns hold the record's
\* field values.
C25_SavedIsStored ==
    (last.op = "save" /\ last.exc = "none" /\ cls.primary_key # 0) =>
        LET pk == cls.primary_key
            self == recs[last.rec].d
        IN  \E row \in table.rows :
                /\ SqlEq(row.cols[pk], adapt(self[pk]))
                /\ \A i \in 1..Len(cls.fields) :
                      i # pk => row.cols[i] = to_column(cls.fields[i], self[i])

\* C26 (over SpecC): while the Database has no connection, every call that
\* goes through execute, fetch_one or fetch_all (create_table, drop_table,
\* save, delete, get, all, first, count, exists) and every commit and
\* rollback raises RuntimeError, returns no row and no record, and leaves
\* the stored rows, the committed store, the transaction state and every
\* record as they were.
C26_NoConnection ==
    [][LET unchanged == /\ table' = table /\ disk' = disk /\ in_tx' = in_tx
                        /\ recs' = recs /\ database' = database
       IN  /\ (/\ ~database._cursor
               /\ last'.op \in {"create_table", "drop_table", "save", "delete", "get",
                                "all", "first", "count", "exists"}) =>
                /\ last'.exc = "RuntimeError"
                /\ ~last'.wrote /\ last'.calls = {} /\ last'.rows = <<>>
                /\ last'.op = "get" => last'.rec = 0
                /\ unchanged
           /\ (~database._connection /\ last'.op \in {"commit", "rollback"}) =>
                /\ last'.exc = "RuntimeError"
                /\ last'.calls = {}
                /\ unchanged]_vars

\* a save made after the scope has ended, while the committed store holds
\* a row, has raised RuntimeError
C26_Witness ==
    /\ last.op = "save" /\ last.exc = "RuntimeError"
    /\ ~scope /\ database = Closed
    /\ disk.rows # {}
    /\ LiveQ # {}
====
